---- MODULE Spec2Model ----
(***************************************************************************)
(* A model of the hexagonal grid of the earth crate: the cube coordinate   *)
(* type GridVec and its arithmetic, the coordinate text parser, the        *)
(* world <-> grid transforms of Grid with GridVec::hex_round, and the tile *)
(* registry (Grid.tiles) kept by cache_new_tiles and ClearGrid.            *)
(*                                                                         *)
(* Integers of the program are i32.  The model keeps the two's complement  *)
(* width as IntBits and scales it down, so that every overflow case of the *)
(* program has a case in the model.  Arithmetic on i32 aborts on overflow  *)
(* when the crate is built with overflow checks (the dev and test          *)
(* profiles) and wraps otherwise (the release profile): overflow_checks is *)
(* the profile, chosen once in the initial state.                          *)
(***************************************************************************)
EXTENDS Integers, Sequences, FiniteSets, TLC

VARIABLES
    overflow_checks,  \* build profile: TRUE aborts on i32 overflow, FALSE wraps
    last,             \* the last GridVec operation: its name, operands and result
    args,             \* the token list given to GridVec::try_from(Vec<&str>)
    parsed,           \* its result, "pending" before the call
    grid,             \* the Grid resource: major_radius, origin
    coord,            \* the GridVec given to Grid::to_world_position, if set
    point,            \* a world position (of coord, or given), if set
    round_err,        \* f32 rounding error of the computed axial position
    gout,             \* the result of Grid::to_grid_coordinate(point)
    ents,             \* the entities that were given a Tile, by entity id
    tiles,            \* Grid.tiles: GridVec -> entity id
    aborted,          \* a command aborted the process (panic)
    frame,            \* the systems that have run since the last flush
    requested,        \* the GenerationRequested flag
    rng,              \* the state (seed) of the shared EarthRng
    queue,            \* the commands queued by systems, not yet applied
    last_seed,        \* the LastGenerationSeed resource, if inserted
    last_gen,         \* what the last run of the generate system did
    nreq,             \* the number of ScheduleGenerate commands applied
    clone_forks,      \* build: fastrand's Rng::clone draws from the original
    tasks,            \* the spawn tasks of a forest tile: count and radius
    colliders,        \* the circles recorded by the tile's scatter pass
    task,             \* the spawn task the pass is at
    object,           \* the objects of that task the pass is done with
    attempts,         \* the failed attempts at the current object
    files,            \* the seed files on disk, by path
    pending,          \* the SaveSeed command queued by the editor, if any
    io,               \* the background writes of SaveSeed not yet done
    report,           \* the last seed command applied and what it logged
    origin,           \* where the seeds came from: the draws of the generation
                      \* that LastGenerationSeed records, and the file the
                      \* state of the generator was loaded from, if it was
    runs              \* two runs of the program that add a forest tile: the
                      \* generators and the objects placed in each

vecVars == <<last>>
parseVars == <<args, parsed>>
gridVars == <<grid, coord, point, round_err, gout>>
tileVars == <<ents, tiles, aborted, frame>>
genVars == <<requested, rng, queue, last_seed, last_gen, nreq, clone_forks,
            origin>>
scatterVars == <<tasks, colliders, task, object, attempts>>
seedVars == <<files, pending, io, report>>
runVars == <<runs>>
vars == <<overflow_checks, last, args, parsed, grid, coord, point, round_err,
          gout, ents, tiles, aborted, frame, requested, rng, queue, last_seed,
          last_gen, nreq, clone_forks, tasks, colliders, task, object,
          attempts, files, pending, io, report, origin, runs>>

\* the variables each part of the model leaves alone
notVec == <<overflow_checks, args, parsed, grid, coord, point, round_err, gout,
            ents, tiles, aborted, frame, genVars, scatterVars, seedVars, runVars>>
notParse == <<overflow_checks, last, grid, coord, point, round_err, gout,
              ents, tiles, aborted, frame, genVars, scatterVars, seedVars, runVars>>
notGrid == <<overflow_checks, last, args, parsed, ents, tiles, aborted, frame,
             genVars, scatterVars, seedVars, runVars>>
notGen == <<overflow_checks, last, args, parsed, grid, coord, point,
            round_err, gout, scatterVars, seedVars, runVars>>
notTiles == <<notGen, genVars>>
notScatter == <<overflow_checks, last, args, parsed, grid, coord, point,
                round_err, gout, tileVars, genVars, seedVars, runVars>>
notRuns == <<overflow_checks, last, args, parsed, grid, coord, point,
             round_err, gout, tileVars, genVars, scatterVars, seedVars>>
notSeed == <<overflow_checks, last, args, parsed, grid, coord, point,
             round_err, gout, scatterVars, runVars>>

----------------------------------------------------------------------------
(* i32, scaled to IntBits bits *)

IntBits == 4

Modulus == 2 ^ IntBits
MinInt == -(2 ^ (IntBits - 1))
MaxInt == (2 ^ (IntBits - 1)) - 1
I32 == MinInt .. MaxInt

\* two's complement wrap of a mathematical integer into i32
Wrap(n) == ((n - MinInt) % Modulus) + MinInt

InRange(n) == n \in I32

IVec3 == I32 \X I32 \X I32

\* the mathematical (unbounded) component sum of a triple
ComponentSum(v) == v[1] + v[2] + v[3]

----------------------------------------------------------------------------
(* Results: Ok(GridVec), Err(CubeCoordinatesInvalid), or an abort (panic) *)

Ok(v) == [kind |-> "ok", vec |-> v]
ErrInvalid == [kind |-> "err", vec |-> <<0, 0, 0>>]
Panic == [kind |-> "panic", vec |-> <<0, 0, 0>>]

IsOk(r) == r.kind = "ok"

\* Result::unwrap: an Err aborts
Unwrap(r) == IF r.kind = "ok" THEN r ELSE Panic

----------------------------------------------------------------------------
(* GridVec *)

ZERO == <<0, 0, 0>>
NORTH == <<0, 1, -1>>
SOUTH == <<0, -1, 1>>
NORTHEAST == <<1, 0, -1>>
SOUTHEAST == <<1, -1, 0>>
NORTHWEST == <<-1, 1, 0>>
SOUTHWEST == <<-1, 0, 1>>

Directions == {NORTH, SOUTH, NORTHEAST, SOUTHEAST, NORTHWEST, SOUTHWEST}

\* the order of GridVec::neighbors
NeighborOrder == <<SOUTH, SOUTHEAST, SOUTHWEST, NORTH, NORTHEAST, NORTHWEST>>

\* impl TryFrom<IVec3>: sum the components (i32 additions, left to right,
\* from 0), reject a sum that is not 0
TryFromIVec3(v) ==
    LET s1 == v[1] + v[2]
        s2 == Wrap(s1) + v[3]
    IN  IF overflow_checks /\ (~InRange(s1) \/ ~InRange(s2)) THEN Panic
        ELSE IF Wrap(s2) # 0 THEN ErrInvalid
        ELSE Ok(v)

\* GridVec::new
New(x, y, z) == TryFromIVec3(<<x, y, z>>)

\* a component-wise i32 operation of glam's IVec3, then try_from(..).unwrap()
FromComponents(raw) ==
    IF overflow_checks /\ (\E i \in 1..3 : ~InRange(raw[i])) THEN Panic
    ELSE Unwrap(TryFromIVec3(<<Wrap(raw[1]), Wrap(raw[2]), Wrap(raw[3])>>))

\* impl Add for GridVec
Add(a, b) == FromComponents(<<a[1] + b[1], a[2] + b[2], a[3] + b[3]>>)

\* impl Sub for GridVec
Sub(a, b) == FromComponents(<<a[1] - b[1], a[2] - b[2], a[3] - b[3]>>)

\* impl Mul<i32> for GridVec
Mul(a, k) == FromComponents(<<a[1] * k, a[2] * k, a[3] * k>>)

\* impl Mul<GridVec> for i32
MulLeft(k, a) == FromComponents(<<k * a[1], k * a[2], k * a[3]>>)

\* an operation on a result: an abort stays an abort
AddR(r, b) == IF IsOk(r) THEN Add(r.vec, b) ELSE Panic

\* impl Sum for GridVec: fold from ZERO with +
RECURSIVE SumFrom(_, _)
SumFrom(r, vs) ==
    IF vs = <<>> THEN r ELSE SumFrom(AddR(r, Head(vs)), Tail(vs))

Sum(vs) == SumFrom(Ok(ZERO), vs)

\* GridVec::axial: the first two components
Axial(v) == <<v[1], v[2]>>

\* GridVec::from_axial: the third component is -x - y (i32 negation, then
\* i32 subtraction); no validation
FromAxial(a) ==
    LET n == -a[1]
        d == Wrap(n) - a[2]
    IN  IF overflow_checks /\ (~InRange(n) \/ ~InRange(d)) THEN Panic
        ELSE Ok(<<a[1], a[2], Wrap(d)>>)

\* GridVec::neighbors, the i-th element
Neighbor(v, i) == Add(v, NeighborOrder[i])

----------------------------------------------------------------------------
(* The GridVec operations as a state machine: a value is made by new,      *)
(* from_axial or a constant, then any sequence of operations is applied to *)
(* the last result.  An abort ends the run.                                *)

Rec(op, lhs, rhs, k, res) ==
    [op |-> op, lhs |-> lhs, rhs |-> rhs, k |-> k, res |-> res]

LastIdle == Rec("init", ZERO, ZERO, 0, Ok(ZERO))

VecStart == last.op = "init"
VecLive == last.op # "init" /\ IsOk(last.res)

VecNew ==
    /\ VecStart
    /\ \E x \in I32, y \in I32, z \in I32 :
          last' = Rec("new", ZERO, <<x, y, z>>, 0, New(x, y, z))
    /\ UNCHANGED notVec

VecFromAxial ==
    /\ VecStart
    /\ \E q \in I32, r \in I32 :
          last' = Rec("from_axial", ZERO, <<q, r, 0>>, 0, FromAxial(<<q, r>>))
    /\ UNCHANGED notVec

VecConst ==
    /\ VecStart
    /\ \E c \in Directions \cup {ZERO} :
          last' = Rec("const", ZERO, c, 0, Ok(c))
    /\ UNCHANGED notVec

VecAdd ==
    /\ VecLive
    /\ \E d \in Directions \cup {ZERO} :
          last' = Rec("add", last.res.vec, d, 0, Add(last.res.vec, d))
    /\ UNCHANGED notVec

VecSub ==
    /\ VecLive
    /\ \E d \in Directions \cup {ZERO} :
          last' = Rec("sub", last.res.vec, d, 0, Sub(last.res.vec, d))
    /\ UNCHANGED notVec

VecMul ==
    /\ VecLive
    /\ \E k \in I32 :
          last' = Rec("mul", last.res.vec, ZERO, k, Mul(last.res.vec, k))
    /\ UNCHANGED notVec

VecMulLeft ==
    /\ VecLive
    /\ \E k \in I32 :
          last' = Rec("mul_left", last.res.vec, ZERO, k, MulLeft(k, last.res.vec))
    /\ UNCHANGED notVec

\* c + d1 + d2, evaluated left to right
VecAddAdd ==
    /\ VecLive
    /\ \E d \in Directions :
          last' = Rec("add_add", last.res.vec, d, 0,
                      AddR(Add(last.res.vec, d), Sub(ZERO, d).vec))
    /\ UNCHANGED notVec

\* c + (the sum of the six unit directions)
VecAddSum ==
    /\ VecLive
    /\ LET s == Sum(NeighborOrder)
       IN  last' = Rec("add_sum", last.res.vec, s.vec, 0,
                       IF IsOk(s) THEN Add(last.res.vec, s.vec) ELSE Panic)
    /\ UNCHANGED notVec

\* the sum of c and another vector, as an iterator sum
VecSum ==
    /\ VecLive
    /\ \E d \in Directions :
          last' = Rec("sum", last.res.vec, d, 0, Sum(<<last.res.vec, d>>))
    /\ UNCHANGED notVec

VecNeighbors ==
    /\ VecLive
    /\ \E i \in 1..6 :
          last' = Rec("neighbors", last.res.vec, NeighborOrder[i], i,
                      Neighbor(last.res.vec, i))
    /\ UNCHANGED notVec

\* from_axial(axial(c))
VecRoundTrip ==
    /\ VecLive
    /\ last' = Rec("round_trip", last.res.vec, ZERO, 0,
                   FromAxial(Axial(last.res.vec)))
    /\ UNCHANGED notVec

VecNext ==
    \/ VecNew
    \/ VecFromAxial
    \/ VecConst
    \/ VecAdd
    \/ VecSub
    \/ VecMul
    \/ VecMulLeft
    \/ VecAddAdd
    \/ VecAddSum
    \/ VecSum
    \/ VecNeighbors
    \/ VecRoundTrip


----------------------------------------------------------------------------
(* Claims about GridVec, under SpecVec *)

ValidVec(v) == v \in IVec3 /\ ComponentSum(v) = 0

\* C1: for every triple of i32, GridVec::new returns the coordinate when
\* x+y+z = 0 and the CubeCoordinatesInvalid error when x+y+z # 0.
C1_NewAcceptsExactlyZeroSum ==
    last.op = "new" =>
        IF ComponentSum(last.rhs) = 0
        THEN last.res = Ok(last.rhs)
        ELSE last.res = ErrInvalid

\* C2: add, sub, scalar multiply (either operand order), sum and neighbors
\* of valid coordinates never abort and yield a coordinate with x+y+z = 0.
C2_ArithmeticKeepsZeroSum ==
    (/\ last.op \in {"add", "sub", "mul", "mul_left", "sum", "neighbors"}
     /\ ValidVec(last.lhs))
        => IsOk(last.res) /\ ValidVec(last.res.vec)

\* C3: from_axial(axial(c)) = c for every valid coordinate c, and
\* from_axial((q, r)) has the components (q, r, -q-r), whose axial is (q, r).
C3_AxialRoundTrip ==
    /\ (last.op = "round_trip" /\ ValidVec(last.lhs))
          => last.res = Ok(last.lhs)
    /\ last.op = "from_axial"
          => /\ last.res = Ok(<<last.rhs[1], last.rhs[2],
                                -last.rhs[1] - last.rhs[2]>>)
             /\ Axial(last.res.vec) = <<last.rhs[1], last.rhs[2]>>

\* C4: C + d + (-d) = C for every coordinate C and unit direction d (so
\* C + NORTH + SOUTH = C), C + (the sum of the six unit directions) = C,
\* and each opposite pair of unit directions sums to ZERO.
C4_OppositeDirectionsCancel ==
    /\ (last.op \in {"add_add", "add_sum"} /\ ValidVec(last.lhs))
          => last.res = Ok(last.lhs)
    /\ Add(NORTH, SOUTH) = Ok(ZERO)
    /\ Add(NORTHEAST, SOUTHWEST) = Ok(ZERO)
    /\ Add(NORTHWEST, SOUTHEAST) = Ok(ZERO)

----------------------------------------------------------------------------
(* Coordinate text: a token is a sequence of characters *)

MaxTokLen == 3
MaxSecondLen == 2

Alphabet == {"-", "+", "1", "8", "n", "s", "e", "w", "N", "x"}

Digits == {"0", "1", "2", "3", "4", "5", "6", "7", "8", "9"}

DigitValue(c) ==
    CASE c = "0" -> 0 [] c = "1" -> 1 [] c = "2" -> 2 [] c = "3" -> 3
      [] c = "4" -> 4 [] c = "5" -> 5 [] c = "6" -> 6 [] c = "7" -> 7
      [] c = "8" -> 8 [] c = "9" -> 9

\* char::to_ascii_lowercase, on the alphabet
ToAsciiLowercase(c) == IF c = "N" THEN "n" ELSE c

TokensUpTo(n) == UNION {[1..m -> Alphabet] : m \in 0..n}

\* the decimal value of a digit string, as a mathematical integer
RECURSIVE DecimalValue(_, _)
DecimalValue(ds, acc) ==
    IF ds = <<>> THEN acc
    ELSE DecimalValue(Tail(ds), 10 * acc + DigitValue(Head(ds)))

\* str::parse::<i32>: an optional sign (+ or -), one or more digits, and a
\* value within i32; anything else is a ParseIntError
ParseI32(s) ==
    LET signed == s # <<>> /\ Head(s) \in {"-", "+"}
        ds == IF signed THEN Tail(s) ELSE s
        v == IF s # <<>> /\ Head(s) = "-"
             THEN -DecimalValue(ds, 0) ELSE DecimalValue(ds, 0)
    IN  IF ds = <<>> \/ (\E i \in 1..Len(ds) : ds[i] \notin Digits)
        THEN [ok |-> FALSE, val |-> 0]
        ELSE IF ~InRange(v) THEN [ok |-> FALSE, val |-> 0]
        ELSE [ok |-> TRUE, val |-> v]

ParseErr(kind) == [kind |-> kind, vec |-> <<0, 0, 0>>]

\* str::find of the first cardinal letter (n, s, e, w in either case);
\* 0 when there is none
FindCardinal(t) ==
    LET hits == {i \in 1..Len(t) :
                    ToAsciiLowercase(t[i]) \in {"n", "s", "e", "w"}}
    IN  IF hits = {} THEN 0
        ELSE CHOOSE i \in hits : \A j \in hits : i <= j

\* the match on the direction text
DirectionOf(dir) ==
    CASE dir = <<"n">> -> NORTH
      [] dir = <<"n", "w">> -> NORTHWEST
      [] dir = <<"n", "e">> -> NORTHEAST
      [] dir = <<"s">> -> SOUTH
      [] dir = <<"s", "w">> -> SOUTHWEST
      [] dir = <<"s", "e">> -> SOUTHEAST
      [] OTHER -> ZERO

parse_dimension(t) ==
    LET split_i == FindCardinal(t)
        mag == SubSeq(t, 1, split_i - 1)
        dir == SubSeq(t, split_i, Len(t))
        m == ParseI32(mag)
    IN  IF split_i = 0 THEN ParseErr("NoDirection")
        ELSE IF DirectionOf(dir) = ZERO THEN ParseErr("InvalidDirection")
        ELSE IF ~m.ok THEN ParseErr("InvalidMagnitude")
        ELSE MulLeft(m.val, DirectionOf(dir))

\* impl TryFrom<Vec<&str>>: the first token, the second or "0n", each
\* parsed in turn (the first failure returns), then summed; further tokens
\* are not read
TryFromArgs(a) ==
    IF a = <<>> THEN ParseErr("TooFewArguments")
    ELSE LET d0 == parse_dimension(a[1])
             d1 == parse_dimension(IF Len(a) >= 2 THEN a[2] ELSE <<"0", "n">>)
         IN  IF ~IsOk(d0) THEN d0
             ELSE IF ~IsOk(d1) THEN d1
             ELSE Sum(<<d0.vec, d1.vec>>)

ParseInputs(first, second) ==
    {<<>>}
      \cup {<<t>> : t \in TokensUpTo(first)}
      \cup {<<t, u>> : t \in TokensUpTo(first), u \in TokensUpTo(second)}
      \cup {<<t, u, <<"x">>>> : t \in TokensUpTo(second),
                                u \in TokensUpTo(second)}

ParsedIdle == ParseErr("idle")

ParseArgs ==
    /\ parsed.kind = "pending"
    /\ parsed' = TryFromArgs(args)
    /\ UNCHANGED <<args, notParse>>

----------------------------------------------------------------------------
(* Claims about the parser, under SpecParse *)

DirectionCodes ==
    {<<"n">>, <<"n", "w">>, <<"n", "e">>, <<"s">>, <<"s", "w">>, <<"s", "e">>}

\* the grammar of a token: ['-'] digit {digit}, then a direction code
SplitsAt(t, i) ==
    /\ SubSeq(t, i + 1, Len(t)) \in DirectionCodes
    /\ LET mag == SubSeq(t, 1, i)
           ds == IF mag # <<>> /\ Head(mag) = "-" THEN Tail(mag) ELSE mag
       IN  ds # <<>> /\ \A k \in 1..Len(ds) : ds[k] \in Digits

\* the magnitude and the direction of a token of the grammar
GrammarMagnitude(t) ==
    LET i == CHOOSE k \in 0..Len(t) : SplitsAt(t, k)
        mag == SubSeq(t, 1, i)
    IN  IF Head(mag) = "-" THEN -DecimalValue(Tail(mag), 0)
        ELSE DecimalValue(mag, 0)

GrammarDirection(t) ==
    LET i == CHOOSE k \in 0..Len(t) : SplitsAt(t, k)
    IN  DirectionOf(SubSeq(t, i + 1, Len(t)))

\* the grammar, with a magnitude that is an i32
GrammarValid(t) ==
    /\ \E i \in 0..Len(t) : SplitsAt(t, i)
    /\ InRange(GrammarMagnitude(t))

\* magnitude x direction, in mathematical integers
Term(t) ==
    <<GrammarMagnitude(t) * GrammarDirection(t)[1],
      GrammarMagnitude(t) * GrammarDirection(t)[2],
      GrammarMagnitude(t) * GrammarDirection(t)[3]>>

Parsed == parsed.kind # "pending"

\* C5: one grammar-valid token parses to magnitude x direction, two
\* grammar-valid tokens to the sum of their terms, and no token to the
\* TooFewArguments error.
C5_ParsedValueIsSumOfTerms ==
    Parsed =>
        /\ args = <<>> => parsed = ParseErr("TooFewArguments")
        /\ (Len(args) = 1 /\ GrammarValid(args[1]))
              => parsed = Ok(Term(args[1]))
        /\ (Len(args) = 2 /\ GrammarValid(args[1]) /\ GrammarValid(args[2]))
              => parsed = Ok(<<Term(args[1])[1] + Term(args[2])[1],
                               Term(args[1])[2] + Term(args[2])[2],
                               Term(args[1])[3] + Term(args[2])[3]>>)

\* C6: a token that is not of the grammar makes parsing return an error
\* value (never a coordinate, never an abort): NoDirection, InvalidDirection
\* or InvalidMagnitude.
C6_MalformedTokenIsAnError ==
    (Parsed /\ \E i \in 1..Len(args) : ~GrammarValid(args[i]))
        => parsed.kind \in {"NoDirection", "InvalidDirection", "InvalidMagnitude"}

----------------------------------------------------------------------------
(* Grid: the world <-> grid transforms.                                    *)
(*                                                                         *)
(* A world position is a pair <<X, Y>> of integers: X counts steps of      *)
(* 1/(2*EpsDen) along x, Y counts steps of COS_FRAC_PI_6/EpsDen along y.   *)
(* With an integer major radius the hexagon centres, edge mid points and   *)
(* vertices are on this lattice, and so are the points one step (the       *)
(* EPSILON of the tests) inside and outside of them.  The f32 products,    *)
(* sums and the matrix inverse are exact on the lattice; what f32 loses is *)
(* modelled by as_vec2, which rounds an i32 to the f32 mantissa, and by    *)
(* round_err, an error of at most one step of 1/ErrScale of the exact      *)
(* denominator in each component of the computed axial position.           *)

EpsDen == 3
ErrScale == 4
MaxRadius == 2

\* the f32 mantissa (24 bits for the 32 bits of i32), scaled with IntBits
MantBits == IntBits - 2

Abs(n) == IF n < 0 THEN -n ELSE n

RECURSIVE BitLen(_)
BitLen(n) == IF n = 0 THEN 0 ELSE 1 + BitLen(n \div 2)

\* i32 as f32: round to nearest, ties to even, at MantBits significant bits
AsF32(n) ==
    LET m == Abs(n)
        e == BitLen(m) - MantBits
        ulp == 2 ^ e
        lo == (m \div ulp) * ulp
        up == lo + ulp
        r == IF 2 * (m - lo) < ulp THEN lo
             ELSE IF 2 * (m - lo) > ulp THEN up
             ELSE IF (lo \div ulp) % 2 = 0 THEN lo ELSE up
    IN  IF e <= 0 THEN n ELSE IF n < 0 THEN -r ELSE r

\* IVec2::as_vec2
AsVec2(a) == <<AsF32(a[1]), AsF32(a[2])>>

\* f32 as i32: the cast saturates
AsI32(n) == IF n > MaxInt THEN MaxInt ELSE IF n < MinInt THEN MinInt ELSE n

\* Grid::to_world_matrix, in lattice steps: the columns (1.5 r, cos r) and
\* (0, 2 cos r)
ToWorldMatrix(g) ==
    [xx |-> 3 * EpsDen * g.major_radius, xy |-> EpsDen * g.major_radius,
     yx |-> 0, yy |-> 2 * EpsDen * g.major_radius]

\* Mat2::inverse: the adjugate over the determinant
Inverse(m) ==
    [xx |-> m.yy, xy |-> -m.xy, yx |-> -m.yx, yy |-> m.xx,
     den |-> m.xx * m.yy - m.yx * m.xy]

\* Grid::to_grid_matrix
ToGridMatrix(g) == Inverse(ToWorldMatrix(g))

\* Grid::to_world_position
ToWorldPosition(g, c) ==
    LET m == ToWorldMatrix(g)
        position == AsVec2(Axial(c))
    IN  <<g.origin[1] + m.xx * position[1] + m.yx * position[2],
          g.origin[2] + m.xy * position[1] + m.yy * position[2]>>

\* floor and ceil of the fraction n/d, d > 0
Floor(n, d) == n \div d
Ceil(n, d) == -((-n) \div d)

\* a rounding that compares the fractional parts without the corrective skew
HexRoundNoSkew(v) ==
    LET fx == v.x % v.den
        fy == v.y % v.den
        axial == IF 2 * fx < v.den /\ 2 * fy < v.den
                    THEN <<Floor(v.x, v.den), Floor(v.y, v.den)>>
                 ELSE IF fx > v.den /\ fy > v.den
                    THEN <<Ceil(v.x, v.den), Ceil(v.y, v.den)>>
                 ELSE IF fx < fy
                    THEN <<Floor(v.x, v.den), Ceil(v.y, v.den)>>
                 ELSE <<Ceil(v.x, v.den), Floor(v.y, v.den)>>
    IN  FromAxial(<<AsI32(axial[1]), AsI32(axial[2])>>)

\* a rounding whose mixed branch rounds x up and y down where x is the smaller
HexRoundSwapped(v) ==
    LET fx == v.x % v.den
        fy == v.y % v.den
        sx == 2 * fx + fy
        sy == 2 * fy + fx
        axial == IF sx < v.den /\ sy < v.den
                    THEN <<Floor(v.x, v.den), Floor(v.y, v.den)>>
                 ELSE IF sx > 2 * v.den /\ sy > 2 * v.den
                    THEN <<Ceil(v.x, v.den), Ceil(v.y, v.den)>>
                 ELSE IF sx < sy
                    THEN <<Ceil(v.x, v.den), Floor(v.y, v.den)>>
                 ELSE <<Floor(v.x, v.den), Ceil(v.y, v.den)>>
    IN  FromAxial(<<AsI32(axial[1]), AsI32(axial[2])>>)

\* a rounding that takes the ceil-both branch as soon as both exceed a half
HexRoundHalfOnly(v) ==
    LET fx == v.x % v.den
        fy == v.y % v.den
        sx == 2 * fx + fy
        sy == 2 * fy + fx
        axial == IF sx < v.den /\ sy < v.den
                    THEN <<Floor(v.x, v.den), Floor(v.y, v.den)>>
                 ELSE IF sx > v.den /\ sy > v.den
                    THEN <<Ceil(v.x, v.den), Ceil(v.y, v.den)>>
                 ELSE IF sx < sy
                    THEN <<Floor(v.x, v.den), Ceil(v.y, v.den)>>
                 ELSE <<Ceil(v.x, v.den), Floor(v.y, v.den)>>
    IN  FromAxial(<<AsI32(axial[1]), AsI32(axial[2])>>)

\* GridVec::hex_round of the fractional axial position (v.x/v.den, v.y/v.den)
\* fx, fy: vec.fract() (vec - vec.floor()), as numerators over v.den;
\* sx, sy: twice (fractional + fractional.yx() * SIN_FRAC_PI_6), so that
\* "< half" is "< v.den" and "> one" is "> 2 * v.den"
HexRound(v) ==
    LET fx == v.x % v.den
        fy == v.y % v.den
        sx == 2 * fx + fy
        sy == 2 * fy + fx
        axial == IF sx < v.den /\ sy < v.den
                    THEN <<Floor(v.x, v.den), Floor(v.y, v.den)>>
                 ELSE IF sx > 2 * v.den /\ sy > 2 * v.den
                    THEN <<Ceil(v.x, v.den), Ceil(v.y, v.den)>>
                 ELSE IF sx < sy
                    THEN <<Floor(v.x, v.den), Ceil(v.y, v.den)>>
                 ELSE <<Ceil(v.x, v.den), Floor(v.y, v.den)>>
    IN  FromAxial(<<AsI32(axial[1]), AsI32(axial[2])>>)

\* the fractional axial position of a world position: to_grid_matrix() *
\* (position - origin), with the rounding error of the f32 evaluation
GridPosition(g, p, err) ==
    LET m == ToGridMatrix(g)
        px == p[1] - g.origin[1]
        py == p[2] - g.origin[2]
    IN  [x |-> (m.xx * px + m.yx * py) * ErrScale + err[1],
         y |-> (m.xy * px + m.yy * py) * ErrScale + err[2],
         den |-> m.den * ErrScale]

\* Grid::to_grid_coordinate
ToGridCoordinate(g, p, err) == HexRound(GridPosition(g, p, err))

Origins == {<<0, 0>>, <<3, -5>>}

Grids == [major_radius : 1..MaxRadius, origin : Origins]

RoundErrs == {<<0, 0>>, <<1, 1>>, <<-1, -1>>, <<1, -1>>, <<-1, 1>>}

\* every valid coordinate
GridVecs == {v \in {<<q, r, -q - r>> : q \in I32, r \in I32} : InRange(v[3])}

\* the world positions around the origin of a grid: three hexagons each way
Region(g) ==
    {<<g.origin[1] + x, g.origin[2] + y>> :
        x \in (-6 * EpsDen * g.major_radius) .. (6 * EpsDen * g.major_radius),
        y \in (-4 * EpsDen * g.major_radius) .. (4 * EpsDen * g.major_radius)}

GridDefault == [major_radius |-> 1, origin |-> <<0, 0>>]
NoCoord == [set |-> FALSE, vec |-> ZERO]
NoPoint == [set |-> FALSE, pos |-> <<0, 0>>]
NoResult == [kind |-> "none", vec |-> ZERO]

GridToWorld ==
    /\ coord.set /\ ~point.set
    /\ point' = [set |-> TRUE, pos |-> ToWorldPosition(grid, coord.vec)]
    /\ UNCHANGED <<grid, coord, round_err, gout, notGrid>>

GridToGrid ==
    /\ point.set /\ gout = NoResult
    /\ gout' = ToGridCoordinate(grid, point.pos, round_err)
    /\ UNCHANGED <<grid, coord, point, round_err, notGrid>>

GridNext ==
    \/ GridToWorld
    \/ GridToGrid

----------------------------------------------------------------------------
(* Claims about the transforms, under SpecGrid *)

\* the integers up to this magnitude are all f32 values (2^24 for f32)
F32ExactInt == 2 ^ MantBits

RoundTripDone == coord.set /\ gout # NoResult

Converted(dx, dy) ==
    /\ point.set /\ ~coord.set /\ gout # NoResult
    /\ point.pos = <<grid.origin[1] + dx, grid.origin[2] + dy>>

\* cos(30 deg) * r in steps along y; r is twice as many steps along x
Apothem == EpsDen * grid.major_radius

NearHexes ==
    {v \in {<<q, r, -q - r>> : q \in -3..3, r \in -3..3} : Abs(v[3]) <= 3}

\* the squared Euclidean distance of two world positions, in units of
\* 1/(2*EpsDen)^2: a step along y is cos(30 deg) = sqrt(3)/2 of two steps
\* along x
Dist2(p, c) ==
    (p[1] - c[1]) * (p[1] - c[1]) + 3 * (p[2] - c[2]) * (p[2] - c[2])

OnEdgeBetween(a, b) ==
    LET da == Dist2(point.pos, ToWorldPosition(grid, a))
    IN  /\ a # b
        /\ da = Dist2(point.pos, ToWorldPosition(grid, b))
        /\ \A h \in NearHexes \ {a, b} :
              da < Dist2(point.pos, ToWorldPosition(grid, h))

\* C25: in exact arithmetic, a point on the edge between two hexagons whose
\* centres differ in x is converted to the one of the two further to the
\* right (of greater world x).
C25_EdgePointGoesToTheRight ==
    (point.set /\ ~coord.set /\ gout # NoResult /\ round_err = <<0, 0>>) =>
        \A a, b \in NearHexes :
            (/\ OnEdgeBetween(a, b)
             /\ ToWorldPosition(grid, a)[1] < ToWorldPosition(grid, b)[1])
                => gout = Ok(b)

----------------------------------------------------------------------------
(* The tile registry.  Commands (AddCity, AddOcean, AddForest, ClearGrid)  *)
(* are applied one at a time between two runs of the systems; the system   *)
(* cache_new_tiles runs once per frame.                                    *)

MaxEntities == 3

TileCoords == {ZERO, NORTH}

EmptyMap == [c \in {} |-> 0]

Live == {e \in DOMAIN ents : ents[e].live}

\* world.spawn(.. Tile { grid_position, .. } ..): a new entity whose Tile is
\* "added" until cache_new_tiles has run; Grid.tiles is not read or written
Spawned(es, c, biome) ==
    Append(es, [pos |-> c, biome |-> biome, added |-> TRUE, live |-> TRUE])

SpawnTile(c, biome) ==
    /\ ~aborted
    /\ Len(ents) < MaxEntities
    /\ ents' = Spawned(ents, c, biome)
    /\ UNCHANGED <<tiles, aborted, frame, notTiles>>

\* impl Command for AddCity
AddCity == \E c \in TileCoords : SpawnTile(c, "city")

\* impl Command for AddOcean
AddOcean == \E c \in TileCoords : SpawnTile(c, "ocean")

\* impl Command for AddForest
AddForest == \E c \in TileCoords : SpawnTile(c, "forest")

\* HashMap::extend with the (grid_position, id) pairs of `new`, in the order
\* the query yields them: of several new tiles at one coordinate the one
\* yielded last stays, and the query's order is not specified
RECURSIVE ExtendedAt(_, _, _)
ExtendedAt(maps, cs, new) ==
    IF cs = {} THEN maps
    ELSE LET c == CHOOSE x \in cs : TRUE
         IN  ExtendedAt({[k \in DOMAIN m \cup {c} |-> IF k = c THEN e ELSE m[k]] :
                            m \in maps, e \in {x \in new : ents[x].pos = c}},
                        cs \ {c}, new)

Extended(map, new) == ExtendedAt({map}, {ents[e].pos : e \in new}, new)

\* fn cache_new_tiles: every live Tile that is_added() is put into Grid.tiles
cache_new_tiles ==
    /\ ~aborted
    /\ LET new == {e \in Live : ents[e].added}
       IN  /\ tiles' \in Extended(tiles, new)
           /\ ents' = [e \in DOMAIN ents |-> [ents[e] EXCEPT !.added = FALSE]]
    /\ frame' = frame \cup {"cache_new_tiles"}
    /\ UNCHANGED <<aborted, notTiles>>

\* a clearing that despawns the tile and leaves its coordinate in the map
RECURSIVE ClearFromKeepKey(_, _, _)
ClearFromKeepKey(order, es, map) ==
    IF order = <<>> THEN [ents |-> es, tiles |-> map, aborted |-> FALSE]
    ELSE LET e == Head(order)
             es2 == [es EXCEPT ![e].live = FALSE]
         IN  IF es[e].pos \notin DOMAIN map
             THEN [ents |-> es2, tiles |-> map, aborted |-> TRUE]
             ELSE ClearFromKeepKey(Tail(order), es2, map)

\* a clearing that skips a tile whose coordinate is not in the map and goes on
RECURSIVE ClearFromSkip(_, _, _)
ClearFromSkip(order, es, map) ==
    IF order = <<>> THEN [ents |-> es, tiles |-> map, aborted |-> FALSE]
    ELSE LET e == Head(order)
             es2 == [es EXCEPT ![e].live = FALSE]
         IN  ClearFromSkip(Tail(order), es2,
                           [c \in DOMAIN map \ {es[e].pos} |-> map[c]])

\* impl Command for ClearGrid: every Tile entity is despawned and its
\* grid_position removed from Grid.tiles; a position that is not in the map
\* aborts (expect).  The tiles are taken in the query's order.
RECURSIVE ClearFrom(_, _, _)
ClearFrom(order, es, map) ==
    IF order = <<>> THEN [ents |-> es, tiles |-> map, aborted |-> FALSE]
    ELSE LET e == Head(order)
             es2 == [es EXCEPT ![e].live = FALSE]
         IN  IF es[e].pos \notin DOMAIN map
             THEN [ents |-> es2, tiles |-> map, aborted |-> TRUE]
             ELSE ClearFrom(Tail(order), es2,
                            [c \in DOMAIN map \ {es[e].pos} |-> map[c]])

Orders(S) == {o \in [1..Cardinality(S) -> S] :
                 \A i, j \in 1..Cardinality(S) : i # j => o[i] # o[j]}

ClearGrid ==
    /\ ~aborted
    /\ \E order \in Orders(Live) :
          LET r == ClearFrom(order, ents, tiles)
          IN  /\ ents' = r.ents
              /\ tiles' = r.tiles
              /\ aborted' = r.aborted
    /\ UNCHANGED <<frame, notTiles>>

TilesNext ==
    \/ AddCity
    \/ AddOcean
    \/ AddForest
    \/ cache_new_tiles
    \/ ClearGrid

\* C10 (SpecTiles): a step of tile registration never gives a coordinate that
\* is mapped to a live entity another entity, and a registration in which
\* every new tile is already the mapped entity of its coordinate leaves the
\* map as it was
C10_RegistrationNeverOverwrites ==
    [][cache_new_tiles =>
        /\ \A c \in DOMAIN tiles :
              ents[tiles[c]].live => tiles'[c] = tiles[c]
        /\ (\A e \in Live : ents[e].added =>
                /\ ents[e].pos \in DOMAIN tiles
                /\ tiles[ents[e].pos] = e)
           => tiles' = tiles]_vars

----------------------------------------------------------------------------
(* World generation.  The systems generate and cache_new_tiles run once    *)
(* per frame, in no fixed order; the commands a system queued are applied  *)
(* when the frame's buffers are flushed, before the systems run again.     *)

RngBits == 4
MaxRequests == 3

\* the states of the generator (u64 in fastrand), scaled to RngBits bits
RngModulus == 2 ^ RngBits
RngStates == 0 .. (RngModulus - 1)

\* one step of the generator: the state advances by an odd increment and the
\* output is a mix of the new state
RngStep(s) == (s + (RngModulus \div 2 + 3)) % RngModulus
RngMix(s) == (s * (s + 1)) \div 2 + (s \div 4)

\* Rng::usize(1..=3)
Usize1To3(s) == [state |-> RngStep(s), value |-> 1 + (RngMix(RngStep(s)) % 3)]

\* a seed that is the state after one more draw
GetSeedAfterDraw(s) == RngStep(s)

\* Rng::get_seed: the current state
GetSeed(s) == s

\* Rng::clone: a copy of the state, or (clone_forks) a generator seeded with
\* a draw from the original
RngClone(s) ==
    IF clone_forks THEN [state |-> RngStep(s), copy |-> RngMix(RngStep(s)) % RngModulus]
    ELSE [state |-> s, copy |-> s]

NoSeed == [set |-> FALSE, seed |-> 0]

\* the seed files a session can name, and the idle state of the seed commands
Paths == {"seed", "old"}
NoPath == "none"
NoSaved == [set |-> FALSE, seed |-> 0, draws |-> <<>>]
NoFile == [exists |-> FALSE, bytes |-> <<>>, saved |-> NoSaved]
NoFiles == [p \in Paths |-> NoFile]
NoReport == [n |-> 0, cmd |-> "none", path |-> NoPath, level |-> "none"]
NoOrigin == [recorded |-> <<>>, loaded |-> NoPath]
NoGeneration == [ran |-> FALSE, seed |-> 0, draws |-> <<>>, requests |-> <<>>]

Command(cmd, pos, arg) == [cmd |-> cmd, pos |-> pos, arg |-> arg]

\* zero_position + (dir * k) + step
Offset(dir, k, step) ==
    LET scaled == Mul(dir, k)
        moved == IF IsOk(scaled) THEN Add(ZERO, scaled.vec) ELSE Panic
    IN  AddR(moved, step).vec

\* the positions with the second and the third exchanged
PositionsSwapped ==
    <<ZERO,
      Offset(NORTHEAST, 3, SOUTH),
      Offset(SOUTHEAST, 2, SOUTH),
      Offset(NORTH, 2, NORTHEAST),
      Offset(SOUTH, 2, SOUTHWEST),
      Offset(NORTHWEST, 2, NORTH),
      Offset(SOUTHWEST, 3, NORTH)>>

\* positions with the second anchor one step nearer to the first
PositionsNear ==
    <<ZERO,
      Offset(SOUTHEAST, 1, SOUTH),
      Offset(NORTHEAST, 3, SOUTH),
      Offset(NORTH, 2, NORTHEAST),
      Offset(SOUTH, 2, SOUTHWEST),
      Offset(NORTHWEST, 2, NORTH),
      Offset(SOUTHWEST, 3, NORTH)>>

\* positions, in generate
Positions ==
    <<ZERO,
      Offset(SOUTHEAST, 2, SOUTH),
      Offset(NORTHEAST, 3, SOUTH),
      Offset(NORTH, 2, NORTHEAST),
      Offset(SOUTH, 2, SOUTHWEST),
      Offset(NORTHWEST, 2, NORTH),
      Offset(SOUTHWEST, 3, NORTH)>>

\* once(around).chain(around.neighbors())
biome_tile_positions(around) ==
    <<around>> \o [i \in 1..6 |-> Neighbor(around, i).vec]

\* every city tile with the layout of the first
LayoutsUniform == <<1, 1, 1, 1, 1, 1, 1>>

Layouts == <<1, 0, 0, 5, 5, 5, 5>>

add_city_biome(around) ==
    [i \in 1..Len(Layouts) |->
        Command("AddCity", biome_tile_positions(around)[i], Layouts[i])]

add_ocean_biome(around) ==
    [i \in 1..Len(biome_tile_positions(around)) |->
        Command("AddOcean", biome_tile_positions(around)[i], 0)]

add_forest_biome(around) ==
    [i \in 1..Len(biome_tile_positions(around)) |->
        Command("AddForest", biome_tile_positions(around)[i], 0)]

\* draws that depend on the number of requests as well as on the seed
RECURSIVE ProcMapSalted(_, _)
ProcMapSalted(s, n) ==
    IF n = 0 THEN [state |-> s, values |-> <<>>]
    ELSE LET d == Usize1To3((s + nreq) % RngModulus)
             rest == ProcMapSalted(d.state, n - 1)
         IN  [state |-> rest.state, values |-> <<d.value>> \o rest.values]

\* proc_map: n calls of rng.usize(1..=3), in order
RECURSIVE ProcMap(_, _)
ProcMap(s, n) ==
    IF n = 0 THEN [state |-> s, values |-> <<>>]
    ELSE LET d == Usize1To3(s)
             rest == ProcMap(d.state, n - 1)
         IN  [state |-> rest.state, values |-> <<d.value>> \o rest.values]

\* the match on the drawn value, for the i-th position
BiomeRequests(seed, i) ==
    CASE seed = 1 -> add_city_biome(Positions[i])
      [] seed = 2 -> add_ocean_biome(Positions[i])
      [] seed = 3 -> add_forest_biome(Positions[i])

\* the commands of the for loop over proc_map, from the i-th value on
RECURSIVE Requests(_, _)
Requests(values, i) ==
    IF i > Len(values) THEN <<>>
    ELSE BiomeRequests(values[i], i) \o Requests(values, i + 1)

\* impl Command for ScheduleGenerate
ScheduleGenerate ==
    /\ ~aborted
    /\ nreq < MaxRequests
    /\ requested' = TRUE
    /\ nreq' = nreq + 1
    /\ UNCHANGED <<rng, queue, last_seed, last_gen, clone_forks, origin, tileVars,
                   notGen>>

\* a generate that leaves the flag set
generateKeepsFlag ==
    /\ ~aborted
    /\ "generate" \notin frame
    /\ frame' = frame \cup {"generate"}
    /\ IF ~requested
       THEN /\ last_gen' = NoGeneration
            /\ UNCHANGED <<requested, rng, queue, origin>>
       ELSE LET proc_map == ProcMap(rng, Len(Positions))
                requests == Requests(proc_map.values, 1)
            IN  /\ requested' = TRUE
                /\ rng' = proc_map.state
                /\ origin' = [origin EXCEPT !.loaded = NoPath]
                /\ queue' = queue \o <<Command("InsertSeed", ZERO, GetSeed(rng))>>
                                  \o requests
                /\ last_gen' = [ran |-> TRUE, seed |-> GetSeed(rng),
                                draws |-> proc_map.values,
                                requests |-> requests]
    /\ UNCHANGED <<last_seed, nreq, clone_forks, ents, tiles, aborted, notGen>>

\* fn generate, one run of the system
generate ==
    /\ ~aborted
    /\ "generate" \notin frame
    /\ frame' = frame \cup {"generate"}
    /\ IF ~requested
       THEN /\ last_gen' = NoGeneration
            /\ UNCHANGED <<requested, rng, queue, origin>>
       ELSE LET proc_map == ProcMap(rng, Len(Positions))
                requests == Requests(proc_map.values, 1)
            IN  /\ requested' = FALSE
                /\ rng' = proc_map.state
                /\ origin' = [origin EXCEPT !.loaded = NoPath]
                /\ queue' = queue \o <<Command("InsertSeed", ZERO, GetSeed(rng))>>
                                  \o requests
                /\ last_gen' = [ran |-> TRUE, seed |-> GetSeed(rng),
                                draws |-> proc_map.values,
                                requests |-> requests]
    /\ UNCHANGED <<last_seed, nreq, clone_forks, ents, tiles, aborted, notGen>>

\* Command::write of one queued command, on the world w
Write(c, w) ==
    CASE c.cmd = "InsertSeed" ->
            [w EXCEPT !.last_seed = [set |-> TRUE, seed |-> c.arg]]
      [] c.cmd = "AddCity" -> [w EXCEPT !.ents = Spawned(@, c.pos, "city")]
      [] c.cmd = "AddOcean" -> [w EXCEPT !.ents = Spawned(@, c.pos, "ocean")]
      [] c.cmd = "AddForest" ->
            [w EXCEPT !.ents = Spawned(@, c.pos, "forest"),
                      !.rng = RngClone(@).state]

\* the queued commands applied in the order they were queued
RECURSIVE Applied(_, _)
Applied(q, w) ==
    IF q = <<>> THEN w ELSE Applied(Tail(q), Write(Head(q), w))

\* the flush of the command buffers at the end of a frame
Flush ==
    /\ ~aborted
    /\ frame = {"generate", "cache_new_tiles"}
    /\ frame' = {}
    /\ queue' = <<>>
    /\ LET w == Applied(queue, [ents |-> ents, last_seed |-> last_seed,
                                rng |-> rng])
       IN  /\ ents' = w.ents
           /\ last_seed' = w.last_seed
           /\ rng' = w.rng
           /\ origin' = [recorded |-> IF \E i \in 1..Len(queue) :
                                            queue[i].cmd = "InsertSeed"
                                       THEN last_gen.draws ELSE origin.recorded,
                         loaded |-> IF w.rng = rng THEN origin.loaded ELSE NoPath]
    /\ UNCHANGED <<requested, last_gen, nreq, clone_forks, tiles, aborted, notGen>>

GenNext ==
    \/ ScheduleGenerate
    \/ generate
    \/ cache_new_tiles
    \/ Flush

----------------------------------------------------------------------------
(* The seed files.  The editor's save command creates a new file and       *)
(* queues SaveSeed with it; SaveSeed hands the write to the io task pool   *)
(* and returns; LoadSeed reads the file while the command is applied.  A   *)
(* file is a sequence of bytes: the characters of the text, and one byte   *)
(* that no UTF-8 text holds.  u64 is scaled to the width of the generator  *)
(* state, and the read buffer with it: one byte more than the longest      *)
(* decimal text of a seed.                                                 *)

MaxSeedCommands == 2

InvalidByte == "0xFF"
SeedBytes == {"0", "1", "9", "+", "nl", InvalidByte}

\* a seed written with a line end after it
RECURSIVE DisplayLn(_)
DisplayLn(n) ==
    IF n < 10 THEN <<CHOOSE c \in Digits : DigitValue(c) = n, "nl">>
    ELSE <<CHOOSE c \in Digits : DigitValue(c) = n \div 10>> \o DisplayLn(n % 10)

\* write!(file, "{}", seed): the decimal digits of a u64
RECURSIVE Display(_)
Display(n) ==
    IF n < 10 THEN <<CHOOSE c \in Digits : DigitValue(c) = n>>
    ELSE Display(n \div 10) \o <<CHOOSE c \in Digits : DigitValue(c) = n % 10>>

\* [0u8; 21]: the width of u64::MAX in decimal, and one byte
seed_buf_len == Len(Display(RngModulus - 1)) + 1

\* file.read(&mut seed_buf): the bytes of seed_buf[..length]
ReadSeedBuf(bytes) ==
    SubSeq(bytes, 1, IF Len(bytes) < seed_buf_len THEN Len(bytes) ELSE seed_buf_len)

\* std::str::from_utf8
FromUtf8Ok(bytes) == \A i \in 1..Len(bytes) : bytes[i] # InvalidByte

\* str::parse::<u64>: an optional +, one or more digits, and a value within
\* u64; anything else is a ParseIntError
ParseU64(t) ==
    LET ds == IF t # <<>> /\ Head(t) = "+" THEN Tail(t) ELSE t
    IN  IF ds = <<>> \/ (\E i \in 1..Len(ds) : ds[i] \notin Digits)
        THEN [ok |-> FALSE, val |-> 0]
        ELSE IF DecimalValue(ds, 0) >= RngModulus THEN [ok |-> FALSE, val |-> 0]
        ELSE [ok |-> TRUE, val |-> DecimalValue(ds, 0)]

\* the files a load can be given: any bytes, up to one more than the buffer
\* holds
SeedTexts == UNION {[1..n -> SeedBytes] : n \in 0..(seed_buf_len + 1)}

Reported(cmd, path, level) ==
    [n |-> report.n + 1, cmd |-> cmd, path |-> path, level |-> level]

\* a command of the editor is applied when the command buffers are flushed:
\* after the commands of the frame's generate, or before them
CommandsApplied == frame = {} \/ frame = {"generate", "cache_new_tiles"}

\* schedule_seed_save: the file is created, and must be new
schedule_seed_save(path) ==
    /\ ~aborted
    /\ frame = {}
    /\ pending = NoPath
    /\ report.n < MaxSeedCommands
    /\ ~files[path].exists
    /\ files' = [files EXCEPT ![path] = [NoFile EXCEPT !.exists = TRUE]]
    /\ pending' = path
    /\ UNCHANGED <<io, report, aborted, genVars, ents, tiles, frame, notSeed>>

\* a write of the seed that LastGenerationSeed holds when the task runs
WrittenLate(t) == last_seed.seed

\* the seed the io task writes: the one SaveSeed::write moved into it
Written(t) == t.seed

\* impl Command for SaveSeed
SaveSeed ==
    /\ ~aborted
    /\ CommandsApplied
    /\ pending # NoPath
    /\ pending' = NoPath
    /\ IF ~last_seed.set
       THEN /\ report' = Reported("SaveSeed", pending, "warn")
            /\ io' = io
       ELSE /\ report' = Reported("SaveSeed", pending, "none")
            /\ io' = io \cup {[path |-> pending, seed |-> last_seed.seed,
                               held |-> last_seed, draws |-> origin.recorded]}
    /\ UNCHANGED <<files, aborted, genVars, ents, tiles, frame, notSeed>>

\* the task SaveSeed gave to the io task pool
IoWrite(t) ==
    /\ ~aborted
    /\ t \in io
    /\ io' = io \ {t}
    /\ files' = [files EXCEPT ![t.path] =
                    [exists |-> TRUE, bytes |-> Display(Written(t)),
                     saved |-> [set |-> TRUE, seed |-> t.held.seed,
                                draws |-> t.draws]]]
    /\ UNCHANGED <<pending, report, aborted, genVars, ents, tiles, frame, notSeed>>

\* schedule_seed_load and impl Command for LoadSeed; readable: file.read
\* gives Ok
LoadSeed(path, readable) ==
    /\ ~aborted
    /\ CommandsApplied
    /\ report.n + (IF pending = NoPath THEN 0 ELSE 1) < MaxSeedCommands
    /\ files[path].exists
    /\ LET buf == ReadSeedBuf(files[path].bytes)
           read_result == ParseU64(buf)
       IN  IF ~readable
           THEN /\ report' = Reported("LoadSeed", path, "read error")
                /\ UNCHANGED <<rng, origin, aborted>>
           ELSE IF ~FromUtf8Ok(buf)
           THEN /\ aborted' = TRUE
                /\ report' = Reported("LoadSeed", path, "none")
                /\ UNCHANGED <<rng, origin>>
           ELSE IF ~read_result.ok
           THEN /\ report' = Reported("LoadSeed", path, "parse error")
                /\ UNCHANGED <<rng, origin, aborted>>
           ELSE /\ rng' = read_result.val
                /\ origin' = [origin EXCEPT !.loaded = path]
                /\ report' = Reported("LoadSeed", path, "none")
                /\ UNCHANGED aborted
    /\ UNCHANGED <<files, pending, io, requested, queue, last_seed, last_gen,
                   nreq, clone_forks, ents, tiles, frame, notSeed>>

SeedNext ==
    \/ \E p \in Paths : schedule_seed_save(p)
    \/ SaveSeed
    \/ \E t \in io : IoWrite(t)
    \/ \E p \in Paths, readable \in BOOLEAN : LoadSeed(p, readable)

\* the state of the generator a session with seed files starts from, and
\* the seed file an earlier session left
InitialSeeds == {RngModulus - 1}
OldSeedFile == [NoFile EXCEPT !.exists = TRUE, !.bytes = Display(1)]

SeedGenNext ==
    \/ SeedNext
    \/ GenNext

----------------------------------------------------------------------------
(* Claims about the tile registry, under SpecTiles *)

\* C11: every coordinate of Grid.tiles is mapped to a tile entity that is
\* still live.
C11_MappedTilesAreLive ==
    \A c \in DOMAIN tiles : tiles[c] \in Live

\* tiles were cleared without an abort and new tiles were registered after
C11_Witness ==
    /\ ~aborted
    /\ \E e \in DOMAIN ents : ~ents[e].live
    /\ \E c \in DOMAIN tiles : tiles[c] \in Live

\* the tile entities a step destroys
Destroyed == {e \in Live : ~ents'[e].live}

\* C12: ClearGrid ends with an empty tile map and no live tile entity, and
\* destroys as many tile entities as there were registered tiles.
C12_ClearGridEmptiesEverything ==
    [][ClearGrid =>
        /\ ~aborted'
        /\ tiles' = EmptyMap
        /\ \A e \in DOMAIN ents' : ~ents'[e].live
        /\ Cardinality(Destroyed) = Cardinality(DOMAIN tiles)]_vars

\* C13: in ClearGrid every destruction of a tile is paired with the removal
\* of its coordinate from the map, up to a tile whose coordinate is not in
\* the map: there ClearGrid aborts, it neither skips the tile nor goes on.
C13_DestructionPairedWithRemoval ==
    [][ClearGrid =>
        /\ (\E e \in Live : ents[e].pos \notin DOMAIN tiles) => aborted'
        /\ Cardinality(Destroyed)
              = Cardinality(DOMAIN tiles \ DOMAIN tiles')
                   + (IF aborted' THEN 1 ELSE 0)
        /\ ~aborted' => /\ Destroyed = Live
                        /\ \A e \in Live : ents[e].pos \notin DOMAIN tiles'
        /\ aborted' => \E e \in Destroyed : ents[e].pos \notin DOMAIN tiles']_vars

\* ClearGrid has aborted after it removed a tile, with a tile left live
C13_Witness ==
    /\ aborted
    /\ \E e \in DOMAIN ents : ~ents[e].live
    /\ \E e \in DOMAIN ents : ents[e].live
    /\ Cardinality({e \in DOMAIN ents : ~ents[e].live}) >= 2

\* C14: a run of cache_new_tiles puts every live tile that was created since
\* the last run into Grid.tiles under its coordinate, and the creation of a
\* tile leaves Grid.tiles as it was.
C14_NewTilesAreRegisteredAtNextTick ==
    [][/\ cache_new_tiles =>
            \A e \in Live : ents[e].added =>
                /\ ents[e].pos \in DOMAIN tiles'
                /\ tiles'[ents[e].pos] = e
       /\ (AddCity \/ AddOcean \/ AddForest) => tiles' = tiles]_vars

----------------------------------------------------------------------------
(* Claims about world generation, under SpecGen *)

\* a step in which the generate system runs, a step that applies a request
GenerateRuns == "generate" \in frame' /\ "generate" \notin frame
RequestApplied == nreq' = nreq + 1

\* the add-tile requests among the commands from the i-th on
TileRequests(q, i) ==
    {k \in i..Len(q) : q[k].cmd \in {"AddCity", "AddOcean", "AddForest"}}
SeedSnapshots(q, i) == {k \in i..Len(q) : q[k].cmd = "InsertSeed"}

\* C15: the flag starts false and a request sets it; a run of generate with
\* the flag false draws nothing, snapshots no seed and requests no tile; a
\* run with the flag true clears the flag and performs one generation (one
\* seed snapshot, 7 draws, 49 tile requests); only a request sets the flag.
C15_OneGenerationPerRequest ==
    /\ requested = FALSE
    /\ [][/\ RequestApplied => requested'
          /\ (requested' /\ ~requested) => RequestApplied
          /\ (GenerateRuns /\ ~requested) =>
                /\ ~requested' /\ ~last_gen'.ran
                /\ rng' = rng /\ queue' = queue /\ last_seed' = last_seed
          /\ (GenerateRuns /\ requested) =>
                /\ ~requested' /\ last_gen'.ran
                /\ Len(last_gen'.draws) = 7
                /\ SubSeq(queue', 1, Len(queue)) = queue
                /\ Cardinality(SeedSnapshots(queue', Len(queue) + 1)) = 1
                /\ Cardinality(TileRequests(queue', Len(queue) + 1)) = 49
          /\ (queue' # queue /\ queue' # <<>>) => (GenerateRuns /\ requested)
         ]_vars

\* two requests were applied before one run of generate, which generated once
C15_Witness ==
    /\ nreq = 2 /\ ~requested /\ last_gen.ran
    /\ Cardinality(TileRequests(queue, 1)) = 49
    /\ ents = <<>>

\* the state of the generator after i draws from s, and the i-th value drawn
RECURSIVE StateAfter(_, _)
StateAfter(s, i) == IF i = 0 THEN s ELSE RngStep(StateAfter(s, i - 1))
DrawnValue(s, i) == 1 + (RngMix(StateAfter(s, i)) % 3)

\* the anchors in their order, and the command of each biome kind
Anchors ==
    <<<<0, 0, 0>>, <<2, -3, 1>>, <<3, -1, -2>>, <<1, 2, -3>>,
      <<-1, -2, 3>>, <<-2, 3, -1>>, <<-3, 1, 2>>>>
BiomeCommand == <<"AddCity", "AddOcean", "AddForest">>

\* C16: a generation draws exactly 7 integers from the shared generator,
\* each in {1, 2, 3}, and the i-th decides the biome of the i-th anchor:
\* 1 a city, 2 an ocean, 3 a forest.
C16_SevenDrawsInAnchorOrder ==
    [][(GenerateRuns /\ requested) =>
          /\ Len(last_gen'.draws) = 7
          /\ rng' = StateAfter(rng, 7)
          /\ \A i \in 1..7 :
                /\ last_gen'.draws[i] \in {1, 2, 3}
                /\ last_gen'.draws[i] = DrawnValue(rng, i)
                /\ last_gen'.requests[7 * (i - 1) + 1].pos = Anchors[i]
                /\ last_gen'.requests[7 * (i - 1) + 1].cmd
                      = BiomeCommand[last_gen'.draws[i]]]_vars

\* a generation drew every kind of biome
C16_Witness ==
    /\ last_gen.ran
    /\ {last_gen.draws[i] : i \in 1..Len(last_gen.draws)} = {1, 2, 3}

\* the tiles of a cluster, relative to its anchor, and the layouts of a city
ClusterSteps ==
    <<<<0, 0, 0>>, <<0, -1, 1>>, <<1, -1, 0>>, <<-1, 0, 1>>,
      <<0, 1, -1>>, <<1, 0, -1>>, <<-1, 1, 0>>>>
CityLayouts == <<1, 0, 0, 5, 5, 5, 5>>

\* C17: a generation requests 49 tiles: for each anchor, in order, the
\* anchor and its neighbours south, southeast, southwest, north, northeast,
\* northwest, all of the biome drawn for the anchor; the tiles of a city
\* cluster carry the layouts 1, 0, 0, 5, 5, 5, 5, ocean and forest tiles
\* carry no parameter of their own.
C17_SevenTilesPerAnchor ==
    last_gen.ran =>
        /\ Len(last_gen.requests) = 49
        /\ \A i \in 1..7 : \A j \in 1..7 :
              LET r == last_gen.requests[7 * (i - 1) + j]
              IN  /\ r.cmd = BiomeCommand[last_gen.draws[i]]
                  /\ r.pos = <<Anchors[i][1] + ClusterSteps[j][1],
                               Anchors[i][2] + ClusterSteps[j][2],
                               Anchors[i][3] + ClusterSteps[j][3]>>
                  /\ r.arg = IF r.cmd = "AddCity" THEN CityLayouts[j] ELSE 0

\* a generation with a city cluster and a cluster of another biome
C17_Witness ==
    /\ last_gen.ran
    /\ \E i, j \in 1..7 : last_gen.draws[i] = 1 /\ last_gen.draws[j] # 1

\* the (coordinate, biome kind) sequence that the seed s stands for
Assignments(s) ==
    [k \in 1..49 |->
        LET i == ((k - 1) \div 7) + 1
            j == ((k - 1) % 7) + 1
        IN  <<<<Anchors[i][1] + ClusterSteps[j][1],
                Anchors[i][2] + ClusterSteps[j][2],
                Anchors[i][3] + ClusterSteps[j][3]>>,
              BiomeCommand[DrawnValue(s, i)]>>]

\* C18: the (coordinate, biome kind) sequence of a generation is the one its
\* seed stands for, whatever else the state holds: two generations from the
\* same seed request the same sequence.
C18_SameSeedSameRequests ==
    last_gen.ran =>
        [k \in 1..Len(last_gen.requests) |->
            <<last_gen.requests[k].pos, last_gen.requests[k].cmd>>]
          = Assignments(last_gen.seed)

\* a later generation, with tiles of an earlier one in the world
C18_Witness ==
    /\ last_gen.ran
    /\ nreq = 2
    /\ ents # <<>>
    /\ tiles # EmptyMap

\* C19: generate requests a tile only at a coordinate that is not in the
\* tile map.
C19_RequestsOnlyFreeCoordinates ==
    [][GenerateRuns =>
          \A k \in TileRequests(queue', Len(queue) + 1) :
              queue'[k].pos \notin DOMAIN tiles]_vars

----------------------------------------------------------------------------
(* The scatter pass of a forest tile.  AddForest::write makes one list of  *)
(* colliders for the tile and hands it to every spawn task in turn; a task *)
(* places its objects one after the other, each in at most                 *)
(* MAX_SPAWN_ATTEMPTS attempts.                                            *)
(*                                                                         *)
(* A centre is a pair of integers, in the units of SPAWN_RADIUS: a random  *)
(* radius of LatticeDen steps per SPAWN_RADIUS along a random angle of a  *)
(* whole number of quarter turns.  A scale is a multiple of 1/ScaleDen in  *)
(* [1/2, 1), and a collider keeps its radius as a count of 1/ScaleDen      *)
(* units.  The values are small integers and multiples of 1/ScaleDen, on   *)
(* which the f32 products, sums and comparisons are exact.                 *)
(* The three values an attempt draws from the generator are any values of  *)
(* their ranges.                                                           *)

SPAWN_RADIUS == 40
MAX_SPAWN_ATTEMPTS == 2
LatticeDen == 2
ScaleDen == 4
MaxKinds == 2
MaxObjects == 3

\* SPAWN_RADIUS * rng.f32(): the multiples of SPAWN_RADIUS / LatticeDen below
\* SPAWN_RADIUS
RandomRadii == {(SPAWN_RADIUS * k) \div LatticeDen : k \in 0..(LatticeDen - 1)}

\* Vec2::from_angle(rng.f32() * TAU): the quarter turns
RandomAngles == {<<1, 0>>, <<0, 1>>, <<-1, 0>>, <<0, -1>>}

\* random_radius * random_angle
RandomPositions ==
    {<<r * a[1], r * a[2]>> : r \in RandomRadii, a \in RandomAngles}

\* rng.f32() * 0.5 + 0.5, as a count of 1/ScaleDen
RandomScales == {n \in 1..(ScaleDen - 1) : 2 * n >= ScaleDen}

\* the exclusion radii of the objects of a tile
Radii == {SPAWN_RADIUS \div 4, SPAWN_RADIUS \div 2}

SpawnCollider(center, radius) == [center |-> center, radius |-> radius]

length_squared(v) == v[1] * v[1] + v[2] * v[2]

\* is_colliding_with that leaves the radius of the other circle out
is_colliding_with_point(self, other) ==
    LET to_other == <<other.center[1] - self.center[1],
                      other.center[2] - self.center[2]>>
    IN  ScaleDen * ScaleDen * length_squared(to_other) < self.radius * self.radius

is_colliding_with(self, other) ==
    LET to_other == <<other.center[1] - self.center[1],
                      other.center[2] - self.center[2]>>
        min_distance_squared == (self.radius + other.radius) * (self.radius + other.radius)
    IN  ScaleDen * ScaleDen * length_squared(to_other) < min_distance_squared

is_colliding_with_any(self, others) ==
    \E i \in 1..Len(others) : is_colliding_with(self, others[i])

\* the spawn tasks a tile can have: up to MaxKinds kinds of object and
\* MaxObjects objects in all
RECURSIVE TotalCount(_)
TotalCount(ts) ==
    IF ts = <<>> THEN 0 ELSE Head(ts).count + TotalCount(Tail(ts))

SpawnTasks ==
    {ts \in UNION {[1..n -> [count : 1..MaxObjects, radius : Radii]] : n \in 1..MaxKinds} :
        TotalCount(ts) <= MaxObjects}

ScatterRunning == task <= Len(tasks)

\* the pass is done with the current object: on to the next object of the
\* task, or to the next task
NextObject ==
    /\ attempts' = 0
    /\ IF object + 1 < tasks[task].count
       THEN object' = object + 1 /\ task' = task
       ELSE object' = 0 /\ task' = task + 1

\* a loop over 0..MAX_SPAWN_ATTEMPTS that goes round once more
OneMoreRound(failed) == failed <= MAX_SPAWN_ATTEMPTS

\* for _ in 0..MAX_SPAWN_ATTEMPTS: there is another round after this many
\* failed ones
AnotherRound(failed) == failed < MAX_SPAWN_ATTEMPTS

\* one round of the loop of attempt_spawn_single
attempt_spawn_single(random_position, random_scale) ==
    /\ ScatterRunning
    /\ LET collider == SpawnCollider(random_position,
                                     tasks[task].radius * random_scale)
       IN  IF ~is_colliding_with_any(collider, colliders)
           THEN /\ colliders' = Append(colliders, collider)
                /\ NextObject
           ELSE /\ colliders' = colliders
                /\ IF AnotherRound(attempts + 1)
                   THEN attempts' = attempts + 1 /\ UNCHANGED <<task, object>>
                   ELSE NextObject
    /\ UNCHANGED <<tasks, notScatter>>

\* AddForest::write for the next tile: a new list of colliders
AddForestScatter ==
    /\ ~ScatterRunning
    /\ tasks # <<>>
    /\ colliders' = <<>> /\ task' = 1 /\ object' = 0 /\ attempts' = 0
    /\ UNCHANGED <<tasks, notScatter>>

ScatterNext ==
    \/ \E p \in RandomPositions, s \in RandomScales : attempt_spawn_single(p, s)
    \/ AddForestScatter

----------------------------------------------------------------------------
(* Claims about the scatter pass, under SpecScatter *)

\* C20: during a tile's scatter pass, after any number of attempts and
\* across the object kinds of the tile, no two recorded circles have centres
\* closer than the sum of their radii: the squared distance of the centres
\* is at least the squared sum of the radii.
C20_RecordedCirclesDoNotOverlap ==
    \A i, j \in 1..Len(colliders) :
        i # j =>
            LET a == colliders[i]
                b == colliders[j]
                dx == a.center[1] - b.center[1]
                dy == a.center[2] - b.center[2]
            IN  ScaleDen * ScaleDen * (dx * dx + dy * dy)
                    >= (a.radius + b.radius) * (a.radius + b.radius)

\* circles of two kinds are recorded, two of them touch, and an attempt
\* at the current object was turned down
C20_Witness ==
    /\ ScatterRunning
    /\ task > 1
    /\ attempts > 0
    /\ \E i, j \in 1..Len(colliders) :
          /\ i < j
          /\ ScaleDen * ScaleDen
                 * length_squared(<<colliders[i].center[1] - colliders[j].center[1],
                                    colliders[i].center[2] - colliders[j].center[2]>>)
               = (colliders[i].radius + colliders[j].radius)
                     * (colliders[i].radius + colliders[j].radius)

\* the objects of the k-th task the pass is not done with when it is at
\* object o of task t, and the attempts it can still make for them after a
\* failed attempts at the current object
ObjectsLeftAt(k, t, o) ==
    IF k < t THEN 0
    ELSE IF k = t THEN tasks[k].count - o
    ELSE tasks[k].count

AttemptsLeftAt(k, t, o, a) ==
    IF k = t THEN MAX_SPAWN_ATTEMPTS * ObjectsLeftAt(k, t, o) - a
    ELSE MAX_SPAWN_ATTEMPTS * ObjectsLeftAt(k, t, o)

ObjectsLeft(k) == ObjectsLeftAt(k, task, object)
AttemptsLeft(k) == AttemptsLeftAt(k, task, object, attempts)

\* C21: the pass makes at most MAX_SPAWN_ATTEMPTS attempts at an object and
\* goes on to the next object at the first accepted candidate, or without a
\* circle and without an error when every attempt collided.  Every attempt
\* takes one of the MAX_SPAWN_ATTEMPTS * N attempts of its kind and every
\* recorded circle one of its N objects, so a kind of count N gets at most N
\* circles and MAX_SPAWN_ATTEMPTS * N attempts, and the pass is over when
\* none is left.
C21_AttemptsAreCapped ==
    /\ [](/\ attempts < MAX_SPAWN_ATTEMPTS
          /\ ~aborted
          /\ \A k \in 1..Len(tasks) : ObjectsLeft(k) >= 0 /\ AttemptsLeft(k) >= 0
          /\ ScatterRunning <=> \E k \in 1..Len(tasks) : AttemptsLeft(k) > 0)
    /\ [][ScatterRunning =>
            LET accepted == Len(colliders') = Len(colliders) + 1
                objects_left == ObjectsLeftAt(task, task', object')
                attempts_left == AttemptsLeftAt(task, task', object', attempts')
                moved_on == objects_left = ObjectsLeft(task) - 1
            IN  /\ accepted \/ colliders' = colliders
                /\ attempts_left < AttemptsLeft(task)
                /\ \A k \in 1..Len(tasks) :
                      k # task =>
                          /\ AttemptsLeftAt(k, task', object', attempts') = AttemptsLeft(k)
                          /\ ObjectsLeftAt(k, task', object') = ObjectsLeft(k)
                /\ accepted => moved_on
                /\ moved_on \/ (objects_left = ObjectsLeft(task)
                                   /\ attempts' = attempts + 1)
                /\ moved_on /\ ~accepted => attempts + 1 = MAX_SPAWN_ATTEMPTS
                /\ moved_on => attempts' = 0]_vars

\* the pass is over: it recorded circles, and gave an object up after
\* MAX_SPAWN_ATTEMPTS attempts
C21_Witness ==
    /\ tasks # <<>>
    /\ ~ScatterRunning
    /\ ~aborted
    /\ Len(colliders) > 1
    /\ Len(colliders) < TotalCount(tasks)

----------------------------------------------------------------------------
(* Claims about the seed files, under SpecSeed and SpecSeedGen *)

\* a step applies a LoadSeed of the file at path p
LoadSeedApplied(p) ==
    /\ report'.n = report.n + 1
    /\ report'.cmd = "LoadSeed"
    /\ report'.path = p

\* a step applies a SaveSeed
SaveSeedApplied == report'.n = report.n + 1 /\ report'.cmd = "SaveSeed"

\* the decimal text of a u64: digits and nothing else, of a value within u64
ValidSeedText(b) ==
    /\ b # <<>>
    /\ \A i \in 1..Len(b) : b[i] \in Digits
    /\ DecimalValue(b, 0) < RngModulus

\* C22: the bytes SaveSeed writes for a seed s are decimal digits with no
\* delimiter, at most as many as the longest seed has and fewer than
\* LoadSeed reads, and a LoadSeed that reads them reseeds the generator
\* with exactly s.
C22_SavedSeedIsLoadedBack ==
    /\ [](\A p \in Paths :
             files[p].saved.set =>
                 /\ \A i \in 1..Len(files[p].bytes) : files[p].bytes[i] \in Digits
                 /\ Len(files[p].bytes) \in 1..Len(Display(RngModulus - 1))
                 /\ Len(files[p].bytes) < seed_buf_len)
    /\ [][\A p \in Paths :
             LoadSeedApplied(p) /\ files[p].saved.set /\ report'.level # "read error"
                 => /\ rng' = files[p].saved.seed
                    /\ report'.level = "none"
                    /\ ~aborted']_vars

\* a seed of two digits was saved, written and loaded back
C22_Witness ==
    /\ report.cmd = "LoadSeed"
    /\ report.level = "none"
    /\ ~aborted
    /\ files[report.path].saved.set
    /\ files[report.path].saved.seed >= 10
    /\ rng = files[report.path].saved.seed

\* C23: a LoadSeed of a file that cannot be read, or whose bytes are not the
\* decimal text of a u64, reports an error, does not abort the process and
\* leaves the state of the generator as it was.
C23_BadSeedFileIsReported ==
    [][\A p \in Paths :
          LoadSeedApplied(p)
              /\ (report'.level = "read error" \/ ~ValidSeedText(files[p].bytes))
              => /\ report'.level \in {"read error", "parse error"}
                 /\ ~aborted'
                 /\ rng' = rng]_vars

\* C26: a generation records the state the generator has before the first
\* biome draw, so a generation that starts from that record, saved to a
\* file and loaded back, makes the same 7 biome choices as the recorded one.
C26_RecordedSeedReplaysGeneration ==
    [][GenerateRuns /\ last_gen'.ran =>
           /\ last_gen'.seed = rng
           /\ \E i \in 1..Len(queue') :
                 /\ queue'[i] = Command("InsertSeed", ZERO, rng)
                 /\ i > Len(queue)
           /\ \A p \in Paths :
                 origin.loaded = p /\ files[p].saved.set =>
                     /\ Len(files[p].saved.draws) = Len(Positions)
                     /\ last_gen'.draws = files[p].saved.draws]_vars

\* a second generation ran from the seed of a file that was saved after the
\* first, and made the choices the file's generation had made
C26_Witness ==
    /\ last_gen.ran /\ ~requested /\ nreq >= 2
    /\ report.cmd = "LoadSeed" /\ report.level = "none"
    /\ files[report.path].saved.set
    /\ last_gen.seed = files[report.path].saved.seed
    /\ last_gen.draws = files[report.path].saved.draws
    /\ origin.loaded = NoPath

\* C27: the io task of a SaveSeed writes the LastGenerationSeed that was held
\* when the command was applied, whatever generation or LoadSeed comes
\* before the write is done; a SaveSeed applied when there is no
\* LastGenerationSeed starts no write and changes nothing but the log.
C27_SavedValueIsFixedWhenApplied ==
    [][/\ SaveSeedApplied /\ last_seed.set =>
              /\ \E t \in io' : /\ io' = io \cup {t}
                                /\ t \notin io
                                /\ t.path = pending
                                /\ t.held = last_seed
              /\ files' = files
       /\ SaveSeedApplied /\ ~last_seed.set =>
              /\ io' = io /\ files' = files /\ rng' = rng /\ aborted' = aborted
              /\ last_seed' = last_seed /\ ents' = ents /\ tiles' = tiles
              /\ requested' = requested /\ queue' = queue
              /\ report'.level = "warn"
       /\ \A t \in io \ io' :
              /\ files'[t.path].bytes = Display(t.held.seed)
              /\ \A p \in Paths \ {t.path} : files'[p] = files[p]]_vars

\* a write is still to be done for a SaveSeed, and a generation since has
\* replaced the LastGenerationSeed it was applied with
C27_Witness ==
    \E t \in io : last_seed.set /\ t.held.seed # last_seed.seed

----------------------------------------------------------------------------
(* Two runs of the program from one seed.  In each the same AddForest      *)
(* command is applied to a shared generator in the same state; the tile's  *)
(* generator is a clone of it, and the scatter pass draws the radius, the  *)
(* angle and the scale of an attempt from the tile's generator and the     *)
(* rotation of a placed object from fastrand's thread-local generator,     *)
(* which the program never seeds and which starts in any state.            *)

\* fastrand::Rng::f32: one step of the generator; the value in [0, 1) as a
\* numerator over RngModulus
F32(s) == [state |-> RngStep(s), value |-> RngMix(RngStep(s)) % RngModulus]

QuarterTurns == <<<<1, 0>>, <<0, 1>>, <<-1, 0>>, <<0, -1>>>>

\* SPAWN_RADIUS * f, on the lattice of RandomRadii
RadiusOf(v) == (SPAWN_RADIUS * ((v * LatticeDen) \div RngModulus)) \div LatticeDen

\* Vec2::from_angle(f * TAU), on the quarter turns
AngleOf(v) == QuarterTurns[1 + ((v * 4) \div RngModulus)]

\* f * 0.5 + 0.5, as a count of 1/ScaleDen
ScaleOf(v) ==
    LET lo == (ScaleDen + 1) \div 2
    IN  lo + ((v * (ScaleDen - lo)) \div RngModulus)

\* Quat::from_rotation_z(f * TAU), in quarter turns
RotationOf(v) == (v * 4) \div RngModulus

\* a run before its AddForest command: the shared generator at the seed s
\* and the thread-local generator at g
NoRun(s, g) ==
    [started |-> FALSE, shared |-> s, rng |-> s, global |-> g,
     colliders |-> <<>>, objects |-> <<>>, task |-> 1, object |-> 0,
     attempts |-> 0]

NoRuns == [i \in 1..2 |-> NoRun(0, 0)]

\* the spawn tasks of the tile: two objects of one kind
RunTasks == {<<[count |-> 2, radius |-> r]>> : r \in Radii}

\* AddForest::write in run i, up to the scatter pass
add_forest_run(i) ==
    /\ ~runs[i].started
    /\ LET c == RngClone(runs[i].shared)
       IN  runs' = [runs EXCEPT ![i].started = TRUE,
                                ![i].shared = c.state,
                                ![i].rng = c.copy]
    /\ UNCHANGED notRuns

RunScattering(i) == runs[i].started /\ runs[i].task <= Len(tasks)

\* the run is done with the current object
NextObjectOf(r) ==
    IF r.object + 1 < tasks[r.task].count
    THEN [r EXCEPT !.attempts = 0, !.object = r.object + 1]
    ELSE [r EXCEPT !.attempts = 0, !.object = 0, !.task = r.task + 1]

\* one round of the loop of attempt_spawn_single in run i, and spawn_single
\* if the circle is free
seeded_attempt(i) ==
    /\ RunScattering(i)
    /\ LET r == runs[i]
           d1 == F32(r.rng)
           d2 == F32(d1.state)
           d3 == F32(d2.state)
           random_radius == RadiusOf(d1.value)
           random_angle == AngleOf(d2.value)
           random_position == <<random_radius * random_angle[1],
                                random_radius * random_angle[2]>>
           random_scale == ScaleOf(d3.value)
           collider == SpawnCollider(random_position,
                                     tasks[r.task].radius * random_scale)
           g == F32(r.global)
           drawn == [r EXCEPT !.rng = d3.state]
       IN  runs' = [runs EXCEPT ![i] =
              IF ~is_colliding_with_any(collider, r.colliders)
              THEN NextObjectOf(
                      [drawn EXCEPT
                          !.colliders = Append(@, collider),
                          !.global = g.state,
                          !.objects = Append(@, [position |-> random_position,
                                                 scale |-> random_scale,
                                                 rotation |-> RotationOf(g.value)])])
              ELSE IF AnotherRound(r.attempts + 1)
                   THEN [drawn EXCEPT !.attempts = r.attempts + 1]
                   ELSE NextObjectOf(drawn)]
    /\ UNCHANGED notRuns

RunsNext ==
    \E i \in 1..2 :
        \/ add_forest_run(i)
        \/ seeded_attempt(i)

(* Claims about two runs from one seed, under SpecRuns *)

RunDone(i) == runs[i].started /\ runs[i].task > Len(tasks)

\* C24: every random value of the placement (position, scale, orientation)
\* is drawn from the seeded generator: two runs from the same seed with the
\* same command place the same objects, with the same position, scale and
\* rotation.
C24_SameSeedSameWorld ==
    (RunDone(1) /\ RunDone(2)) => runs[1].objects = runs[2].objects

----------------------------------------------------------------------------
(* Further claims about world generation, under SpecGen *)

\* a step applies the commands of a frame
FlushRuns == frame # {} /\ frame' = {}

GeneratedCoords ==
    {biome_tile_positions(Positions[i])[j] : i \in 1..Len(Positions), j \in 1..7}

\* the live tiles at a coordinate
TilesAt(p) == {e \in Live : ents[e].pos = p}

\* a generation was applied and every tile it spawned has been registered
GenerationRegistered ==
    /\ last_seed.set
    /\ Live # {}
    /\ \A e \in Live : ~ents[e].added

\* C28: a generation clears the world and creates one map: once its commands
\* are applied and cache_new_tiles has run, each of the generated coordinates
\* holds exactly one live tile, also when the tiles of an earlier generation
\* were there.
C28_OneLiveTilePerGeneratedCoordinate ==
    GenerationRegistered =>
        \A p \in GeneratedCoords : Cardinality(TilesAt(p)) = 1

\* the number of steps between two hexagons
HexDistance(a, b) ==
    LET d == [i \in 1..3 |-> Abs(a[i] - b[i])]
    IN  CHOOSE n \in {d[1], d[2], d[3]} : \A i \in 1..3 : d[i] <= n

\* the anchor of the i-th cluster of the last generation
RequestedAnchor(i) == last_gen.requests[7 * (i - 1) + 1].pos

\* C29: the 49 coordinates one generation requests are pairwise distinct:
\* every two of the 7 anchors are at least 3 steps apart, so that no two of
\* the 7-tile clusters share a coordinate.
C29_ClustersShareNoCoordinate ==
    last_gen.ran =>
        /\ \A i, j \in 1..7 :
              i # j => HexDistance(RequestedAnchor(i), RequestedAnchor(j)) >= 3
        /\ \A k, l \in 1..Len(last_gen.requests) :
              k # l => last_gen.requests[k].pos # last_gen.requests[l].pos

\* a generation whose nearest clusters touch: two anchors are exactly 3
\* steps apart and 49 coordinates are requested
C29_Witness ==
    /\ last_gen.ran
    /\ Cardinality({last_gen.requests[k].pos :
                       k \in 1..Len(last_gen.requests)}) = 49
    /\ \E i, j \in 1..7 :
          HexDistance(RequestedAnchor(i), RequestedAnchor(j)) = 3

----------------------------------------------------------------------------
(* Specifications *)

\* GridVec arithmetic
InitVec ==
    /\ overflow_checks \in BOOLEAN
    /\ last = LastIdle
    /\ args = <<>> /\ parsed = ParsedIdle
    /\ grid = GridDefault /\ coord = NoCoord /\ point = NoPoint
    /\ round_err = <<0, 0>> /\ gout = NoResult
    /\ ents = <<>> /\ tiles = EmptyMap /\ aborted = FALSE /\ frame = {}
    /\ requested = FALSE /\ rng = 0 /\ queue = <<>> /\ last_seed = NoSeed
    /\ last_gen = NoGeneration /\ nreq = 0 /\ clone_forks = FALSE
    /\ tasks = <<>> /\ colliders = <<>> /\ task = 1 /\ object = 0
    /\ attempts = 0
    /\ files = NoFiles /\ pending = NoPath /\ io = {} /\ report = NoReport
    /\ origin = NoOrigin
    /\ runs = NoRuns

SpecVec == InitVec /\ [][VecNext]_vars

\* coordinate text parsing
InitParse ==
    /\ overflow_checks \in BOOLEAN
    /\ last = LastIdle
    /\ args \in ParseInputs(MaxTokLen, MaxSecondLen) /\ parsed = ParseErr("pending")
    /\ grid = GridDefault /\ coord = NoCoord /\ point = NoPoint
    /\ round_err = <<0, 0>> /\ gout = NoResult
    /\ ents = <<>> /\ tiles = EmptyMap /\ aborted = FALSE /\ frame = {}
    /\ requested = FALSE /\ rng = 0 /\ queue = <<>> /\ last_seed = NoSeed
    /\ last_gen = NoGeneration /\ nreq = 0 /\ clone_forks = FALSE
    /\ tasks = <<>> /\ colliders = <<>> /\ task = 1 /\ object = 0
    /\ attempts = 0
    /\ files = NoFiles /\ pending = NoPath /\ io = {} /\ report = NoReport
    /\ origin = NoOrigin
    /\ runs = NoRuns

NextParse == ParseArgs

SpecParse == InitParse /\ [][NextParse]_vars

\* world <-> grid transforms
InitGrid ==
    /\ overflow_checks \in BOOLEAN
    /\ last = LastIdle
    /\ args = <<>> /\ parsed = ParsedIdle
    /\ grid \in Grids
    /\ round_err \in RoundErrs
    /\ gout = NoResult
    /\ \/ coord \in [set : {TRUE}, vec : GridVecs] /\ point = NoPoint
       \/ coord = NoCoord /\ point \in [set : {TRUE}, pos : Region(grid)]
    /\ ents = <<>> /\ tiles = EmptyMap /\ aborted = FALSE /\ frame = {}
    /\ requested = FALSE /\ rng = 0 /\ queue = <<>> /\ last_seed = NoSeed
    /\ last_gen = NoGeneration /\ nreq = 0 /\ clone_forks = FALSE
    /\ tasks = <<>> /\ colliders = <<>> /\ task = 1 /\ object = 0
    /\ attempts = 0
    /\ files = NoFiles /\ pending = NoPath /\ io = {} /\ report = NoReport
    /\ origin = NoOrigin
    /\ runs = NoRuns

SpecGrid == InitGrid /\ [][GridNext]_vars

\* the tile registry
InitTiles ==
    /\ overflow_checks = FALSE
    /\ last = LastIdle
    /\ args = <<>> /\ parsed = ParsedIdle
    /\ grid = GridDefault /\ coord = NoCoord /\ point = NoPoint
    /\ round_err = <<0, 0>> /\ gout = NoResult
    /\ ents = <<>> /\ tiles = EmptyMap /\ aborted = FALSE /\ frame = {}
    /\ requested = FALSE /\ rng = 0 /\ queue = <<>> /\ last_seed = NoSeed
    /\ last_gen = NoGeneration /\ nreq = 0 /\ clone_forks = FALSE
    /\ tasks = <<>> /\ colliders = <<>> /\ task = 1 /\ object = 0
    /\ attempts = 0
    /\ files = NoFiles /\ pending = NoPath /\ io = {} /\ report = NoReport
    /\ origin = NoOrigin
    /\ runs = NoRuns

SpecTiles == InitTiles /\ [][TilesNext]_vars

\* world generation
InitGen ==
    /\ overflow_checks \in BOOLEAN
    /\ last = LastIdle
    /\ args = <<>> /\ parsed = ParsedIdle
    /\ grid = GridDefault /\ coord = NoCoord /\ point = NoPoint
    /\ round_err = <<0, 0>> /\ gout = NoResult
    /\ ents = <<>> /\ tiles = EmptyMap /\ aborted = FALSE /\ frame = {}
    /\ requested = FALSE /\ rng \in RngStates /\ queue = <<>> /\ last_seed = NoSeed
    /\ last_gen = NoGeneration /\ nreq = 0 /\ clone_forks \in BOOLEAN
    /\ tasks = <<>> /\ colliders = <<>> /\ task = 1 /\ object = 0
    /\ attempts = 0
    /\ files = NoFiles /\ pending = NoPath /\ io = {} /\ report = NoReport
    /\ origin = NoOrigin
    /\ runs = NoRuns

SpecGen == InitGen /\ [][GenNext]_vars

\* the scatter pass of a forest tile, for any spawn tasks
InitScatter ==
    /\ overflow_checks = TRUE
    /\ last = LastIdle
    /\ args = <<>> /\ parsed = ParsedIdle
    /\ grid = GridDefault /\ coord = NoCoord /\ point = NoPoint
    /\ round_err = <<0, 0>> /\ gout = NoResult
    /\ ents = <<>> /\ tiles = EmptyMap /\ aborted = FALSE /\ frame = {}
    /\ requested = FALSE /\ rng = 0 /\ queue = <<>> /\ last_seed = NoSeed
    /\ last_gen = NoGeneration /\ nreq = 0 /\ clone_forks = FALSE
    /\ tasks \in SpawnTasks /\ colliders = <<>> /\ task = 1 /\ object = 0
    /\ attempts = 0
    /\ files = NoFiles /\ pending = NoPath /\ io = {} /\ report = NoReport
    /\ origin = NoOrigin
    /\ runs = NoRuns

SpecScatter == InitScatter /\ [][ScatterNext]_vars

\* the seed commands, on any seed file
InitSeed ==
    /\ overflow_checks = TRUE
    /\ last = LastIdle
    /\ args = <<>> /\ parsed = ParsedIdle
    /\ grid = GridDefault /\ coord = NoCoord /\ point = NoPoint
    /\ round_err = <<0, 0>> /\ gout = NoResult
    /\ ents = <<>> /\ tiles = EmptyMap /\ aborted = FALSE /\ frame = {}
    /\ requested = FALSE /\ rng = 0 /\ queue = <<>>
    /\ \/ /\ last_seed = NoSeed
          /\ files \in {[NoFiles EXCEPT !["old"] =
                                         [NoFile EXCEPT !.exists = TRUE, !.bytes = b]] :
                            b \in SeedTexts}
       \/ /\ last_seed \in {[set |-> TRUE, seed |-> x] : x \in RngStates}
          /\ files = NoFiles
    /\ last_gen = NoGeneration /\ nreq = 0 /\ clone_forks = FALSE
    /\ tasks = <<>> /\ colliders = <<>> /\ task = 1 /\ object = 0
    /\ attempts = 0
    /\ pending = NoPath /\ io = {} /\ report = NoReport
    /\ origin = NoOrigin
    /\ runs = NoRuns

SpecSeed == InitSeed /\ [][SeedNext]_vars

\* generation and the seed commands
InitSeedGen ==
    /\ overflow_checks = TRUE
    /\ last = LastIdle
    /\ args = <<>> /\ parsed = ParsedIdle
    /\ grid = GridDefault /\ coord = NoCoord /\ point = NoPoint
    /\ round_err = <<0, 0>> /\ gout = NoResult
    /\ ents = <<>> /\ tiles = EmptyMap /\ aborted = FALSE /\ frame = {}
    /\ requested = FALSE /\ rng \in InitialSeeds /\ queue = <<>>
    /\ last_seed = NoSeed
    /\ last_gen = NoGeneration /\ nreq = 0 /\ clone_forks \in BOOLEAN
    /\ tasks = <<>> /\ colliders = <<>> /\ task = 1 /\ object = 0
    /\ attempts = 0
    /\ files = [NoFiles EXCEPT !["old"] = OldSeedFile]
    /\ pending = NoPath /\ io = {} /\ report = NoReport
    /\ origin = NoOrigin
    /\ runs = NoRuns

SpecSeedGen == InitSeedGen /\ [][SeedGenNext]_vars

\* two runs from one seed
InitRuns ==
    /\ overflow_checks = TRUE
    /\ last = LastIdle
    /\ args = <<>> /\ parsed = ParsedIdle
    /\ grid = GridDefault /\ coord = NoCoord /\ point = NoPoint
    /\ round_err = <<0, 0>> /\ gout = NoResult
    /\ ents = <<>> /\ tiles = EmptyMap /\ aborted = FALSE /\ frame = {}
    /\ requested = FALSE /\ rng \in InitialSeeds /\ queue = <<>>
    /\ last_seed = NoSeed
    /\ last_gen = NoGeneration /\ nreq = 0 /\ clone_forks \in BOOLEAN
    /\ tasks \in RunTasks /\ colliders = <<>> /\ task = 1 /\ object = 0
    /\ attempts = 0
    /\ files = NoFiles /\ pending = NoPath /\ io = {} /\ report = NoReport
    /\ origin = NoOrigin
    /\ runs \in [1..2 -> {NoRun(rng, g) : g \in RngStates}]

SpecRuns == InitRuns /\ [][RunsNext]_vars

====
